---- MODULE Spec2Model ----
(***************************************************************************)
(* Linear cryptanalysis of the Heys cipher (pxl-th/heys): the cipher       *)
(* (heys/cipher.py), the bit utilities and the S-box table of linear       *)
(* approximations (heys/utilities.py), the branch-and-bound search         *)
(* (heys/branch_bound.py) and the M2 key search (heys/m2.py).              *)
(*                                                                         *)
(* Blocks, keys and masks are numpy uint16 values: naturals below 2^16.    *)
(* A 65536-entry lookup table of the program is modelled by the operator   *)
(* that computes one entry of it; an instance's table is therefore held    *)
(* in the state as the 4-bit substitution it was computed from.            *)
(***************************************************************************)
EXTENDS Integers, Sequences, FiniteSets, TLC

\* ------------------------------------------------------------------------
\* Bounds of the model
\* ------------------------------------------------------------------------

\* S-boxes tried: S_BOX with its input rotated by 0..MaxSBoxRotation.
MaxSBoxRotation == 2

\* Key schedules tried have 1..MaxRounds+1 subkeys (0..MaxRounds rounds).
MaxRounds == 2

\* The number of betas branch_bound draws in one round (10000 in the
\* program).
SampleSize == 2

\* The candidates of _key_search_process are the keys below KeyCount
\* (1 << 16 in the program).
KeyCount == 4

\* An alpha of the approximations of m2 has up to MaxBetas betas.
MaxBetas == 2

\* m2 is run with 1..MaxProcesses processes.
MaxProcesses == 2

\* calculate_approximations is asked for 0..MaxApproximations approximations.
MaxApproximations == 2

\* ------------------------------------------------------------------------
\* State
\* ------------------------------------------------------------------------

VARIABLES
    heys,        \* the Heys instance: its fields, or NoHeys before __init__
    cache,       \* the three cache files: <<>> when absent, else <<t>>,
                 \* t the substitutions the cached tables were computed from
    message,     \* the block last given to encrypt (None: none yet)
    encrypted,   \* what encrypt returned for it
    ciphertext,  \* the block last given to decrypt (None: none yet)
    decrypted    \* what decrypt returned for it

cipherVars == <<heys, cache, message, encrypted, ciphertext, decrypted>>

VARIABLES
    input_number,   \* an index into heys.permutation (None: none chosen)
    permuted,       \* heys.permutation[input_number] (None: not looked up)
    target_number   \* heys.permutation[permuted] (None: not looked up)

permutationVars == <<input_number, permuted, target_number>>

VARIABLES
    call         \* the last call of a function of heys/utilities.py or
                 \* heys/branch_bound.py: its name, arguments and result

utilityVars == <<call>>

VARIABLES
    search,        \* the call of branch_bound under way: its arguments,
                   \* round_id and previous_round
    found,         \* the last call of branch_bound that returned, with the
                   \* map it returned, until the next call is made
    found_before   \* the call of branch_bound that returned before that

searchVars == <<search, found, found_before>>

VARIABLES
    job,             \* the call of m2 under way: its arguments, alpha_id,
                     \* keys, keys_list and the processes of the alpha
    finished,        \* the last call of m2 that returned, with the array
                     \* it returned, until the next call is made
    finished_before  \* the call of m2 that returned before that

m2Vars == <<job, finished, finished_before>>

VARIABLES
    tie_order        \* how the sort of the numpy in use orders equal elements

numpyVars == <<tie_order>>

VARIABLES
    searched         \* the last call of _key_search_process made on its
                     \* own: its arguments, possible_keys after each beta
                     \* and output_keys

keySearchVars == <<searched>>

VARIABLES
    expanded         \* the last pass of the loop of branch_bound made on
                     \* its own: previous_round, betas and current_round

roundVars == <<expanded>>

VARIABLES
    approximations_dict,
                     \* the dict the caller passed to calculate_approximations
                     \* as approximations, alpha by alpha in its order
    calculation,     \* the call of calculate_approximations under way
    calculated       \* what the last call of calculate_approximations
                     \* returned and did

approximationVars == <<approximations_dict, calculation, calculated>>

VARIABLES
    attacking,       \* the call of attack under way: its arguments
    attacked         \* what the last call of attack returned

attackVars == <<attacking, attacked>>

vars == <<cipherVars, permutationVars, utilityVars, searchVars, m2Vars,
         numpyVars, keySearchVars, roundVars, approximationVars, attackVars>>

\* What the actions of one component leave alone.
notCipher == <<permutationVars, utilityVars, searchVars, m2Vars,
    numpyVars, keySearchVars, roundVars, approximationVars,
    attackVars>>

notPermutation == <<cipherVars, utilityVars, searchVars, m2Vars,
    numpyVars, keySearchVars, roundVars, approximationVars,
    attackVars>>

notUtility == <<cipherVars, permutationVars, searchVars, m2Vars,
    numpyVars, keySearchVars, roundVars, approximationVars,
    attackVars>>

notSearch == <<cipherVars, permutationVars, utilityVars, m2Vars,
    numpyVars, keySearchVars, roundVars, approximationVars,
    attackVars>>

notKeySearch ==
    <<cipherVars, permutationVars, utilityVars, searchVars, m2Vars, numpyVars,
      roundVars, approximationVars,
    attackVars>>

notRound == <<cipherVars, permutationVars, utilityVars, searchVars, m2Vars,
    numpyVars, keySearchVars, approximationVars, attackVars>>

notApproximation == <<cipherVars, permutationVars, utilityVars, m2Vars,
    numpyVars, keySearchVars, roundVars, attackVars>>

notAttack == <<cipherVars, permutationVars, utilityVars, searchVars,
    numpyVars, keySearchVars, roundVars>>

notM2 == <<cipherVars, permutationVars, utilityVars, searchVars,
    numpyVars, keySearchVars, roundVars, approximationVars,
    attackVars>>

\* ------------------------------------------------------------------------
\* uint16 arithmetic
\* ------------------------------------------------------------------------

\* 1 << 16: the number of uint16 values.
Words == 65536

\* 0b1111, the mask of one fragment.
s_block_mask == 15

\* Heys.FRAGMENT: the width of one S-box fragment.
FRAGMENT == 4

None == -1

Nibbles == 0 .. s_block_mask

Fragments == 0 .. (FRAGMENT - 1)

\* (w >> i) & 1
Bit(w, i) == (w \div (2 ^ i)) % 2

\* (w >> (FRAGMENT * fragment_id)) & s_block_mask
Fragment(w, fragment_id) == (w \div (2 ^ (FRAGMENT * fragment_id))) % (s_block_mask + 1)

\* a & b on two fragments, as a table.
And4 ==
    [a \in Nibbles |-> [b \in Nibbles |->
        Bit(a, 0) * Bit(b, 0) + 2 * (Bit(a, 1) * Bit(b, 1))
        + 4 * (Bit(a, 2) * Bit(b, 2)) + 8 * (Bit(a, 3) * Bit(b, 3))]]

\* x & y on uint16, fragment by fragment.
And(x, y) ==
    And4[x % 16][y % 16]
    + 16 * And4[(x \div 16) % 16][(y \div 16) % 16]
    + 256 * And4[(x \div 256) % 16][(y \div 256) % 16]
    + 4096 * And4[x \div 4096][y \div 4096]

\* x ^ y on uint16
Xor(x, y) == x + y - 2 * And(x, y)

\* x | y on uint16
Or(x, y) == x + y - And(x, y)

\* ndarray.byteswap on uint16: the two bytes of the value exchanged.
byteswap(w) == (w % 256) * 256 + (w \div 256)

\* ------------------------------------------------------------------------
\* The 4-bit S-box
\* ------------------------------------------------------------------------

\* heys/s_box.py S_BOX, as a function on 0..15.
S_BOX ==
    [x \in Nibbles |->
        <<15, 6, 5, 8, 14, 11, 10, 4, 12, 0, 3, 7, 2, 9, 1, 13>>[x + 1]]

\* The bijective S-boxes a caller is taken to pass.
SBoxes ==
    {[x \in Nibbles |-> S_BOX[(x + r) % 16]] : r \in 0 .. MaxSBoxRotation}

\* Heys._calculate_s_block_inverse: for each element the position of
\* the S-box holding it.
calculate_s_block_inverse(s_block_substitution) ==
    [element \in Nibbles |->
        CHOOSE position \in Nibbles :
            s_block_substitution[position] = element]

\* ------------------------------------------------------------------------
\* Heys: the expanded tables
\* ------------------------------------------------------------------------

\* Heys._s_block_raw on one element of the array: the loop over the four
\* fragments, each cleared and replaced in place by its substitution (a
\* pass reads a fragment no earlier pass has written).
s_block_raw(transformation, elements) ==
    transformation[elements % 16]
    + 16 * transformation[(elements \div 16) % 16]
    + 256 * transformation[(elements \div 256) % 16]
    + 4096 * transformation[elements \div 4096]

\* Heys._calculate_s_block, one entry of the pair of tables it returns,
\* `tables` holding the instance's _s_block_substitution and
\* _s_block_inverse_substitution.  _s_block_raw works in place on the
\* array it is given and returns that array; both calls are given the same
\* `words`, so the second call substitutes the result of the first and
\* both returned tables are that one array.
calculate_s_block(tables, word) ==
    LET words1 == s_block_raw(tables.substitution, word)
        words2 == s_block_raw(tables.inverse, words1)
    IN  [s_block |-> words2, s_block_inverse |-> words2]

\* _calculate_permutation with the bit moved to the next position of its
\* target block: tmp_bit << (((bit_pos + 1) % FRAGMENT) * FRAGMENT).
moved_bit_off_by_one(word, bit_id) ==
    LET block_id == bit_id \div FRAGMENT
        bit_pos == (bit_id + 1) % FRAGMENT
        tmp_bit == Bit(word, bit_id)
    IN  (tmp_bit * (2 ^ (bit_pos * FRAGMENT))) * (2 ^ block_id)

\* _calculate_permutation with block and position exchanged, which leaves
\* every bit where it was: (tmp_bit << (block_id * FRAGMENT)) << bit_pos.
moved_bit_in_place(word, bit_id) ==
    LET block_id == bit_id \div FRAGMENT
        bit_pos == bit_id % FRAGMENT
        tmp_bit == Bit(word, bit_id)
    IN  (tmp_bit * (2 ^ (block_id * FRAGMENT))) * (2 ^ bit_pos)

\* The inner statement of Heys._calculate_permutation for bit bit_id of
\* word: (tmp_bit << (bit_pos * FRAGMENT)) << block_id.
moved_bit(word, bit_id) ==
    LET block_id == bit_id \div FRAGMENT
        bit_pos == bit_id % FRAGMENT
        tmp_bit == Bit(word, bit_id)
    IN  (tmp_bit * (2 ^ (bit_pos * FRAGMENT))) * (2 ^ block_id)

\* The four passes of the loop of _calculate_permutation over the bits of
\* block 0, for every value of that block.  The bits land on distinct
\* positions, so or-ing them into shuffled adds them.
moved_block ==
    [block \in Nibbles |->
        moved_bit(block, 0) + moved_bit(block, 1)
        + moved_bit(block, 2) + moved_bit(block, 3)]

\* Heys._calculate_permutation, one entry: shuffled[word] after the loop
\* over the sixteen bits.  The bits of block block_id land where those of
\* block 0 do, shifted by block_id.
calculate_permutation(word) ==
    moved_block[word % 16]
    + 2 * moved_block[(word \div 16) % 16]
    + 4 * moved_block[(word \div 256) % 16]
    + 8 * moved_block[word \div 4096]

\* heys.permutation[word].  The table does not depend on the S-box, so a
\* cached table and a computed one are the same.
permutation(word) == calculate_permutation(word)

\* heys.s_block[word] of an instance whose tables were computed from the
\* substitutions `tables`.
s_block(tables, word) == calculate_s_block(tables, word).s_block

\* heys.s_block_inverse[word], likewise.
s_block_inverse(tables, word) == calculate_s_block(tables, word).s_block_inverse

\* ------------------------------------------------------------------------
\* Heys: construction, encrypt, decrypt
\* ------------------------------------------------------------------------

\* keys of spec scenario C (R = 6).
ScenarioKeys == <<65228, 5256, 41535, 58147, 5188, 8210, 3754>>

\* A key schedule of r + 1 subkeys, the words of ScenarioKeys taken from
\* position variant on.
KeySchedule(r, variant) ==
    [i \in 1 .. (r + 1) |-> ScenarioKeys[((i + variant) % 7) + 1]]

\* Key schedules a caller passes: R + 1 subkeys, R = 0 .. MaxRounds, among
\* them the all-zero ones, and the seven subkeys of a six-round cipher.
KeySchedules ==
    {KeySchedule(r, variant) : r \in 0 .. MaxRounds, variant \in {0, 3}}
    \cup {[i \in 1 .. (r + 1) |-> 0] : r \in 0 .. MaxRounds}
    \cup {ScenarioKeys}

\* Blocks a caller passes.
Blocks == {0, 1, 16915, 43981}

\* The two 4-bit tables an instance computes its expanded tables from.
substitutions(s_block_table) ==
    [substitution |-> s_block_table,
     inverse |-> calculate_s_block_inverse(s_block_table)]

\* No instance constructed yet.
NoHeys == [constructed |-> FALSE]

\* _load_cache: the three cache files are there.
cache_intact == cache # <<>>

\* Heys.__init__ with _load_cache and _create_cache: the tables are
\* loaded from the cache files when all three are there, whatever they
\* were computed from, and computed and written otherwise.
Construct(s_block_table, keys) ==
    /\ heys' = [constructed |-> TRUE,
                keys |-> [i \in DOMAIN keys |-> byteswap(keys[i])],
                rounds |-> Len(keys) - 1,
                s_block_substitution |-> s_block_table,
                s_block_inverse_substitution |->
                    calculate_s_block_inverse(s_block_table),
                tables |-> IF cache_intact THEN cache[1]
                           ELSE substitutions(s_block_table)]
    /\ cache' = IF cache_intact THEN cache
                ELSE <<substitutions(s_block_table)>>
    /\ message' = None
    /\ encrypted' = None
    /\ ciphertext' = None
    /\ decrypted' = None
    /\ UNCHANGED notCipher

\* One pass of the loop of Heys.encrypt: key, S-box, permutation.
encrypt_round(self, output, round_id) ==
    permutation(s_block(self.tables, Xor(output, self.keys[round_id + 1])))

\* The loop of Heys.encrypt from round round_id on.  (Binding round_output
\* through a set makes TLC compute each round before it enters the next.)
RECURSIVE encrypt_rounds(_, _, _)
encrypt_rounds(self, output, round_id) ==
    IF round_id = self.rounds THEN output
    ELSE CHOOSE result \in
             {encrypt_rounds(self, round_output, round_id + 1) :
                 round_output \in {encrypt_round(self, output, round_id)}} :
             TRUE

\* Heys.encrypt on one block.
encrypt(self, block) ==
    Xor(encrypt_rounds(self, byteswap(block), 0), self.keys[Len(self.keys)])

\* One pass of the loop of Heys.decrypt: permutation, inverse S-box, key.
decrypt_round(self, output, round_id) ==
    Xor(s_block_inverse(self.tables, permutation(output)),
        self.keys[round_id + 1])

\* The loop of Heys.decrypt from round round_id down.
RECURSIVE decrypt_rounds(_, _, _)
decrypt_rounds(self, output, round_id) ==
    IF round_id < 0 THEN output
    ELSE CHOOSE result \in
             {decrypt_rounds(self, round_output, round_id - 1) :
                 round_output \in {decrypt_round(self, output, round_id)}} :
             TRUE

\* Heys.decrypt returning output without the closing byteswap.
decrypt_without_byteswap(self, block) ==
    decrypt_rounds(self, Xor(block, self.keys[Len(self.keys)]),
                   self.rounds - 1)

\* Heys.decrypt on one block.
decrypt(self, block) ==
    byteswap(decrypt_rounds(self,
                            Xor(block, self.keys[Len(self.keys)]),
                            self.rounds - 1))

Encrypt(block) ==
    /\ heys.constructed
    /\ message' = block
    /\ encrypted' = encrypt(heys, block)
    /\ ciphertext' = None
    /\ decrypted' = None
    /\ UNCHANGED <<heys, cache>>
    /\ UNCHANGED notCipher

Decrypt(block) ==
    /\ heys.constructed
    /\ ciphertext' = block
    /\ decrypted' = decrypt(heys, block)
    /\ UNCHANGED <<heys, cache, message, encrypted>>
    /\ UNCHANGED notCipher

CipherIdle ==
    /\ heys = NoHeys
    /\ cache = <<>>
    /\ message = None
    /\ encrypted = None
    /\ ciphertext = None
    /\ decrypted = None

PermutationIdle ==
    /\ input_number = None
    /\ permuted = None
    /\ target_number = None

NoCall == [fn |-> "none"]

UtilityIdle == call = NoCall

\* No call of branch_bound under way; none that returned.
NoSearch == [active |-> FALSE]

NotFound == [returned |-> FALSE]

SearchIdle ==
    /\ search = NoSearch
    /\ found = NotFound
    /\ found_before = NotFound

\* No call of m2 under way; none that returned.
NoJob == [active |-> FALSE]

NotFinished == [returned |-> FALSE]

M2Idle ==
    /\ job = NoJob
    /\ finished = NotFinished
    /\ finished_before = NotFinished

\* The order of equal elements under numpy's default sort, which is not
\* stable: by position ("ascending"), by position from the end
\* ("descending"), or with the middle one of the equal elements moved
\* behind the others, as the exchange of the pivot of a quicksort leaves
\* them ("pivoted").
TieOrders == {"ascending", "descending", "pivoted"}

\* Nothing is sorted outside m2.
NumpyIdle == tie_order = "ascending"

\* No call of _key_search_process made on its own.
NotSearched == [made |-> FALSE]

KeySearchIdle == searched = NotSearched

NotExpanded == [done |-> FALSE]

RoundIdle == expanded = NotExpanded

NoCalculation == [active |-> FALSE]

NotCalculated == [returned |-> FALSE]

ApproximationIdle ==
    /\ approximations_dict = << >>
    /\ calculation = NoCalculation
    /\ calculated = NotCalculated

NoAttack == [active |-> FALSE]

NotAttacked == [returned |-> FALSE]

AttackIdle ==
    /\ attacking = NoAttack
    /\ attacked = NotAttacked

Init ==
    /\ CipherIdle
    /\ PermutationIdle
    /\ UtilityIdle
    /\ SearchIdle
    /\ M2Idle
    /\ NumpyIdle
    /\ KeySearchIdle
    /\ RoundIdle
    /\ ApproximationIdle
    /\ AttackIdle

Next ==
    \/ \E s_block_table \in SBoxes, keys \in KeySchedules :
           Construct(s_block_table, keys)
    \/ \E block \in Blocks : Encrypt(block)
    \/ \E block \in Blocks \cup ({encrypted} \ {None}) : Decrypt(block)

Spec == Init /\ [][Next]_vars

\* C1: decrypt(encrypt(x)) under the same instance returns x, for every
\* key schedule and every block x.
DecryptEncryptRoundTrip ==
    (ciphertext # None /\ ciphertext = encrypted) => decrypted = message

\* C1 witness: scenario C (six rounds, x = 0x4213) decrypted back.
DecryptEncryptRoundTripWitness ==
    /\ heys.constructed
    /\ heys.rounds = 6
    /\ message = 16915
    /\ ciphertext = encrypted
    /\ decrypted = 16915

\* The expanded S-box of the specification:
\* SBOX16[w] = sum over b of S[(w >> 4b) & 0xF] << 4b.
SBOX16(S, w) ==
    S[Fragment(w, 0)] + 16 * S[Fragment(w, 1)]
    + 256 * S[Fragment(w, 2)] + 4096 * S[Fragment(w, 3)]

\* x_r of the specification: x_0 = x, x_{r+1} = PERM[SBOX16[x_r XOR K[r]]].
RECURSIVE SpecifiedRounds(_, _, _, _)
SpecifiedRounds(S, K, x, r) ==
    IF r = Len(K) - 1 THEN x
    ELSE CHOOSE result \in
             {SpecifiedRounds(S, K, next, r + 1) :
                 next \in {permutation(SBOX16(S, Xor(x, K[r + 1])))}} :
             TRUE

\* The key schedule the caller gave to the constructor (the instance keeps
\* it byte-swapped; the swap is its own inverse).
SuppliedKeys == [i \in DOMAIN heys.keys |-> byteswap(heys.keys[i])]

\* C4: encrypt returns x_R XOR K[R] for the S-box, the key schedule and
\* the block the caller supplied.
EncryptIsSpecifiedNetwork ==
    encrypted # None =>
        encrypted = Xor(SpecifiedRounds(heys.s_block_substitution,
                                        SuppliedKeys, message, 0),
                        SuppliedKeys[Len(SuppliedKeys)])

\* C17: after any sequence of constructions sharing the cache files, the
\* tables of the instance were computed from its own S-box (a cache written
\* for another S-box is never loaded), and its expanded S-box and inverse
\* table are the nibble-wise expansions of its S-box and of the inverse.
HeysTablesAreOwnExpansion ==
    heys.constructed =>
        /\ heys.tables = substitutions(heys.s_block_substitution)
        /\ \A word \in Blocks :
               /\ s_block(heys.tables, word)
                  = SBOX16(heys.s_block_substitution, word)
               /\ s_block_inverse(heys.tables, word)
                  = SBOX16(heys.s_block_inverse_substitution, word)

\* ------------------------------------------------------------------------
\* The permutation table, entry by entry
\* ------------------------------------------------------------------------

\* heys.permutation[input_number]
Shuffle ==
    /\ permuted = None
    /\ permuted' = permutation(input_number)
    /\ UNCHANGED <<input_number, target_number>>
    /\ UNCHANGED notPermutation

\* heys.permutation[heys.permutation[input_number]]
Reshuffle ==
    /\ permuted # None
    /\ target_number = None
    /\ target_number' = permutation(permuted)
    /\ UNCHANGED <<input_number, permuted>>
    /\ UNCHANGED notPermutation

InitPermutation ==
    /\ CipherIdle
    /\ UtilityIdle
    /\ SearchIdle
    /\ M2Idle
    /\ NumpyIdle
    /\ KeySearchIdle
    /\ RoundIdle
    /\ ApproximationIdle
    /\ AttackIdle
    /\ input_number \in 0 .. (Words - 1)
    /\ permuted = None
    /\ target_number = None

NextPermutation ==
    \/ Shuffle
    \/ Reshuffle

SpecPermutation == InitPermutation /\ [][NextPermutation]_vars

\* C2: the permutation table is an involution: for every w in
\* [0, 65536), permutation[permutation[w]] = w.
PermutationInvolution ==
    target_number # None => target_number = input_number

\* C2 witness: 0x2B12 is moved to 0x40D6 and back.
PermutationInvolutionWitness ==
    /\ input_number = 11026
    /\ permuted = 16598
    /\ target_number = 11026

\* 0b1000010000100001: the bits 4 * i + i.
DiagonalMask == 33825

\* C3: bit 4*i + b of permutation[w] is bit 4*b + i of w, for every w and
\* b, i in 0..3; so every w inside the diagonal mask 0x8421 is fixed.
PermutationRoutesBits ==
    permuted # None =>
        /\ \A b \in Fragments, i \in Fragments :
               Bit(permuted, 4 * i + b) = Bit(input_number, 4 * b + i)
        /\ (\A i \in 0 .. 15 :
                Bit(input_number, i) = 1 => Bit(DiagonalMask, i) = 1)
           => permuted = input_number

\* C3 witness: the diagonal mask itself, looked up, and 0x1001 moved to
\* 0x0009 in another behaviour are both reached; this is the former.
PermutationRoutesBitsWitness ==
    /\ input_number = DiagonalMask
    /\ permuted = DiagonalMask
    /\ target_number = None

\* ------------------------------------------------------------------------
\* heys/utilities.py: Hamming weight, bitwise dot, linear potential
\* ------------------------------------------------------------------------

\* bin(number).count("1"): the ones among the binary digits of number.
RECURSIVE count_ones(_)
count_ones(number) ==
    IF number = 0 THEN 0 ELSE (number % 2) + count_ones(number \div 2)

\* The ones among the four binary digits of a fragment, as a table.
fragment_ones == [number \in Nibbles |-> count_ones(number)]

\* calculate_hamming_weight(bits)[number]: the table holds the count of
\* ones of every index below 1 << bits, counted here four digits at a
\* time (None stands for the IndexError of an index outside the table).
calculate_hamming_weight(bits, number) ==
    IF number < 2 ^ bits
    THEN fragment_ones[number % 16] + fragment_ones[(number \div 16) % 16]
         + fragment_ones[(number \div 256) % 16]
         + fragment_ones[number \div 4096]
    ELSE None

\* bitwise_dot without the closing & 0b1: the Hamming weight itself.
bitwise_dot_unmasked(x, y, bits) == calculate_hamming_weight(bits, And(x, y))

\* bitwise_dot(x, y, hamming_weight), hamming_weight being
\* calculate_hamming_weight(bits): hamming_weight[x & y] & 0b1.
bitwise_dot(x, y, bits) == calculate_hamming_weight(bits, And(x, y)) % 2

\* heys/utilities.py sbox_linear_approximations: for every pair of sums the
\* number of inputs on which the two dots agree, less 8.
sbox_linear_approximations(s_box) ==
    [input_sum \in Nibbles |-> [output_sum \in Nibbles |->
        Cardinality({number \in Nibbles :
            bitwise_dot(input_sum, number, 4)
            = bitwise_dot(output_sum, s_box[number], 4)}) - 8]]

\* linear_potential(inputs, alpha, beta, transformation, hamming_weight) as
\* heys/branch_bound.py calls it on the sixteen inputs of the S-box: the
\* squared correlation ((1/16) * sum of signs) ** 2, the sign of an input
\* being 1 when the two dots agree and -1 otherwise.  The value is the
\* fraction num / 256; num is given.
sbox_linear_potential(alpha, beta, s_box) ==
    LET agree == Cardinality({number \in Nibbles :
                     bitwise_dot(alpha, number, 4)
                     = bitwise_dot(beta, s_box[number], 4)})
        signs == agree - (16 - agree)
    IN  signs * signs

\* The denominator of the entries of sbox_probabilities: 16 ** 2.
ProbabilityUnit == 256

\* heys/branch_bound.py sbox_linear_approximations: the 16 x 16 table of
\* the linear potentials of the S-box, in units of 1 / ProbabilityUnit.
sbox_probabilities(s_box) ==
    [alpha \in Nibbles |-> [beta \in Nibbles |->
        sbox_linear_potential(alpha, beta, s_box)]]

\* potential of linear_potential for one input: the dot of beta with the
\* round function's output, xor the dot of alpha with the input.
potential(input, alpha, beta, keys, tables) ==
    Xor(bitwise_dot(beta, permutation(s_block(tables, Xor(input, keys))), 16),
        bitwise_dot(alpha, input, 16))

\* The sum of linear_potential with where(potential == 0, 1, 0): the
\* inputs with potential 0 counted, the others left out.
potential_sum_of_zeros(alpha, beta, keys, tables) ==
    Cardinality({input \in 0 .. (Words - 1) :
        potential(input, alpha, beta, keys, tables) = 0})

\* einsum("rc->r", where(potential == 0, 1, -1)) over inputs = arange(1 << 16):
\* the inputs with potential 0 count 1, the others -1.
potential_sum(alpha, beta, keys, tables) ==
    LET zeros == Cardinality({input \in 0 .. (Words - 1) :
                     potential(input, alpha, beta, keys, tables) = 0})
    IN  zeros - (Words - zeros)

\* linear_potential: (sum / (1 << 16)) ** 2, as the fraction num / den.
\* The sum is even, so this is (sum / 2) ** 2 over (1 << 15) ** 2.
linear_potential(alpha, beta, keys, tables) ==
    LET half == potential_sum(alpha, beta, keys, tables) \div 2
    IN  [num |-> half * half, den |-> (Words \div 2) * (Words \div 2)]

\* Arguments a caller passes to bitwise_dot.
DotArguments ==
    {0, 1, 15, 31, 240, 4660, 33825, 41120, 43981, 65534, 65535}

\* Masks and round keys a caller passes to linear_potential.
PotentialAlphas == {0, 33825}

PotentialBetas == {0, 4096}

PotentialKeys == {0, 65228}

BitwiseDot(x, y) ==
    /\ call = NoCall
    /\ call' = [fn |-> "bitwise_dot", x |-> x, y |-> y,
                result |-> bitwise_dot(x, y, 16)]
    /\ UNCHANGED notUtility

SboxLinearApproximations(s_box) ==
    /\ call = NoCall
    /\ call' = [fn |-> "sbox_linear_approximations", s_box |-> s_box,
                result |-> sbox_linear_approximations(s_box)]
    /\ UNCHANGED notUtility

SboxProbabilities(s_box) ==
    /\ call = NoCall
    /\ call' = [fn |-> "sbox_probabilities", s_box |-> s_box,
                result |-> sbox_probabilities(s_box)]
    /\ UNCHANGED notUtility

LinearPotential(alpha, beta, keys, tables) ==
    /\ call = NoCall
    /\ call' = [fn |-> "linear_potential", alpha |-> alpha, beta |-> beta,
                keys |-> keys,
                result |-> linear_potential(alpha, beta, keys, tables)]
    /\ UNCHANGED notUtility

InitUtilities ==
    /\ CipherIdle
    /\ PermutationIdle
    /\ UtilityIdle
    /\ SearchIdle
    /\ M2Idle
    /\ NumpyIdle
    /\ KeySearchIdle
    /\ RoundIdle
    /\ ApproximationIdle
    /\ AttackIdle

NextUtilities ==
    \/ \E x \in DotArguments, y \in DotArguments : BitwiseDot(x, y)
    \/ \E s_box \in SBoxes : SboxLinearApproximations(s_box)
    \/ \E s_box \in SBoxes : SboxProbabilities(s_box)
    \/ \E alpha \in PotentialAlphas, beta \in PotentialBetas,
          keys \in PotentialKeys :
           LinearPotential(alpha, beta, keys, substitutions(S_BOX))

SpecUtilities == InitUtilities /\ [][NextUtilities]_vars

\* The sum of the sixteen entries of a row of a 16 x 16 table, each
\* entry mapped by Term.
RECURSIVE RowSum(_, _, _)
RowSum(Term(_), row, beta) ==
    IF beta = 16 THEN 0 ELSE Term(row[beta]) + RowSum(Term, row, beta + 1)

\* (2m - 16) ** 2 for an entry m - 8 of heys/utilities.py's table.
SquaredBias(entry) == (2 * entry) * (2 * entry)

Unchanged(entry) == entry

\* C5: for a bijective S-box every row of the LAT sums to one: with
\* L[alpha, beta] = ((2m - 16) / 16) ** 2, m the number of inputs on which
\* the two parities agree, the sum over beta of (2m - 16) ** 2 is 256.
LatRowsSumToOne ==
    /\ call.fn = "sbox_linear_approximations" =>
           \A alpha \in Nibbles :
               RowSum(SquaredBias, call.result[alpha], 0) = 256
    /\ call.fn = "sbox_probabilities" =>
           \A alpha \in Nibbles :
               RowSum(Unchanged, call.result[alpha], 0) = ProbabilityUnit

\* C5 witness: the table of S_BOX, whose row 5 has an entry off beta = 0.
LatRowsSumToOneWitness ==
    /\ call.fn = "sbox_linear_approximations"
    /\ call.s_box = S_BOX
    /\ \E beta \in Nibbles \ {0} : call.result[5][beta] # 0

\* C6: with output mask 0 the linear potential is 1 for input mask 0 and 0
\* for every other input mask: for the keyed round function over all 2^16
\* inputs, and for the S-box (L[0,0] = 1, L[alpha,0] = 0 for alpha # 0).
ZeroOutputMaskPotential ==
    /\ (call.fn = "linear_potential" /\ call.beta = 0) =>
           IF call.alpha = 0 THEN call.result.num = call.result.den
                             ELSE call.result.num = 0
    /\ call.fn = "sbox_linear_approximations" =>
           \A alpha \in Nibbles :
               SquaredBias(call.result[alpha][0])
               = IF alpha = 0 THEN 256 ELSE 0
    /\ call.fn = "sbox_probabilities" =>
           \A alpha \in Nibbles :
               call.result[alpha][0] = IF alpha = 0 THEN ProbabilityUnit ELSE 0

\* C6 witness: the diagonal input mask, output mask 0, a non-zero key.
ZeroOutputMaskPotentialWitness ==
    /\ call.fn = "linear_potential"
    /\ call.alpha = DiagonalMask
    /\ call.beta = 0
    /\ call.keys = 65228
    /\ call.result.num = 0

\* C7: bitwise_dot(x, y, hamming16) is popcount(x AND y) mod 2, the parity
\* of the number of bit positions set in both x and y, and is 0 or 1.
BitwiseDotIsParity ==
    call.fn = "bitwise_dot" =>
        /\ call.result \in {0, 1}
        /\ call.result =
               Cardinality({i \in 0 .. 15 :
                   Bit(call.x, i) = 1 /\ Bit(call.y, i) = 1}) % 2

\* C7 witness: 0xFFFF and 0xFFFE share fifteen bits.
BitwiseDotIsParityWitness ==
    /\ call.fn = "bitwise_dot"
    /\ call.x = 65535
    /\ call.y = 65534
    /\ call.result = 1

\* ------------------------------------------------------------------------
\* heys/branch_bound.py: the search for linear approximations
\* ------------------------------------------------------------------------

\* Probabilities are float64 values.  Those met here are fractions
\* num / 2 ** exp with a short odd numerator, which float64 holds, adds,
\* multiplies and compares without rounding; a probability is the record of
\* num and exp, with num odd or the fraction 0.
RECURSIVE Dyadic(_, _)
Dyadic(num, exp) ==
    IF num = 0 THEN [num |-> 0, exp |-> 0]
    ELSE IF exp > 0 /\ num % 2 = 0 THEN Dyadic(num \div 2, exp - 1)
    ELSE [num |-> num, exp |-> exp]

\* num of probability over the denominator 2 ** exp, exp no less than its own.
Scaled(probability, exp) == probability.num * 2 ^ (exp - probability.exp)

LargerExp(p, q) == IF p.exp > q.exp THEN p.exp ELSE q.exp

\* previous_probability * current_probability
Product(p, q) == Dyadic(p.num * q.num, p.exp + q.exp)

\* current_round[current_element] += ...
Total(p, q) ==
    Dyadic(Scaled(p, LargerExp(p, q)) + Scaled(q, LargerExp(p, q)),
           LargerExp(p, q))

\* probability >= probability_threshold
AtLeast(probability, probability_threshold) ==
    Scaled(probability, LargerExp(probability, probability_threshold))
    >= Scaled(probability_threshold, LargerExp(probability, probability_threshold))

\* probability > probability_threshold, the filter of branch_bound.
Above(probability, probability_threshold) ==
    Scaled(probability, LargerExp(probability, probability_threshold))
    > Scaled(probability_threshold, LargerExp(probability, probability_threshold))

\* The upper bound of randint in branch_bound, 1 << 16.
upper_bound == Words

\* What randint(low=1, high=upper_bound, dtype="uint16") can return.
Drawn == 1 .. (upper_bound - 1)

\* The draws followed here: 0x1001, 0x1100, 0x9009 and, were it in the
\* range of randint, 0.
BetaCandidates == {0, 4097, 4352, 36873} \cap Drawn

\* The arrays betas of one round: SampleSize draws, repeats included.
BetaSamples == [1 .. SampleSize -> BetaCandidates]

\* Input masks and thresholds a caller passes to branch_bound: 0 and 1 / 4.
SearchAlphas == {0, 1}

Thresholds == {Dyadic(0, 0), Dyadic(1, 2)}

\* What branch_bound reads of its argument heys: sbox_fragment and rounds
\* (the number of subkeys less one, as Heys.__init__ sets _rounds).
SearchCiphers ==
    {[sbox_fragment |-> s_box, rounds |-> rounds] :
        s_box \in SBoxes, rounds \in 0 .. MaxRounds}

\* sbox_probabilities of branch_bound, for each S-box tried: the table is
\* computed from heys.sbox_fragment alone, before the loop.
search_probabilities == [s_box \in SBoxes |-> sbox_probabilities(s_box)]

\* approximation_probability for one output element: the product over the
\* four fragments of the entries of sbox_probabilities, each entry
\* num / ProbabilityUnit = num / 2 ** 8.
approximation_probability(input_element, output_element, probabilities) ==
    LET entry(fragment_id) ==
            Dyadic(probabilities[Fragment(input_element, fragment_id)]
                                [Fragment(output_element, fragment_id)], 8)
    IN  Product(Product(entry(0), entry(1)), Product(entry(2), entry(3)))

\* How many times current_element occurs in betas.
occurrences(betas, current_element) ==
    Cardinality({i \in DOMAIN betas : betas[i] = current_element})

\* current_round[current_element] after the two loops of one round: for
\* every element of previous_round (those of `elements` are still to come)
\* and every occurrence of current_element in betas, previous_probability
\* * current_probability is added to what is there, 0 at first.
RECURSIVE accumulated(_, _, _, _, _)
accumulated(elements, previous_round, betas, probabilities, current_element) ==
    IF elements = {} THEN Dyadic(0, 0)
    ELSE LET previous_element == CHOOSE element \in elements : TRUE
             current_probability ==
                 approximation_probability(previous_element,
                     permutation(current_element), probabilities)
             added == Product(previous_round[previous_element],
                              current_probability)
         IN  Total(accumulated(elements \ {previous_element}, previous_round,
                               betas, probabilities, current_element),
                   Dyadic(occurrences(betas, current_element) * added.num,
                          added.exp))

\* current_round at the end of one pass of the loop over the rounds.  With
\* previous_round empty nothing is ever looked up in current_round, and it
\* stays empty.
current_round(previous_round, betas, probabilities) ==
    IF DOMAIN previous_round = {} THEN << >>
    ELSE [current_element \in {betas[i] : i \in DOMAIN betas} |->
             accumulated(DOMAIN previous_round, previous_round, betas,
                         probabilities, current_element)]

\* The dict comprehension closing a round: the elements of current_round
\* whose probability is above the threshold.
surviving(round, probability_threshold) ==
    [element \in {current_element \in DOMAIN round :
                      Above(round[current_element], probability_threshold)}
        |-> round[element]]

\* branch_bound up to its loop: previous_round is {alpha: 1}.
BranchBound(cipher, alpha, probability_threshold) ==
    /\ ~search.active
    /\ search' = [active |-> TRUE, heys |-> cipher, alpha |-> alpha,
                  probability_threshold |-> probability_threshold,
                  round_id |-> 0,
                  previous_round |-> (alpha :> Dyadic(1, 0))]
    /\ found' = NotFound
    /\ found_before' = found
    /\ UNCHANGED notSearch

\* One pass of the loop over the rounds, randint having returned betas.
BranchBoundRound(betas) ==
    /\ search.active
    /\ search.round_id < search.heys.rounds
    /\ search' = [search EXCEPT
           !.round_id = @ + 1,
           !.previous_round =
               surviving(current_round(@, betas,
                             search_probabilities[search.heys.sbox_fragment]),
                         search.probability_threshold)]
    /\ UNCHANGED <<found, found_before>>
    /\ UNCHANGED notSearch

\* return previous_round
BranchBoundReturn ==
    /\ search.active
    /\ search.round_id = search.heys.rounds
    /\ found' = [returned |-> TRUE, heys |-> search.heys,
                 alpha |-> search.alpha,
                 probability_threshold |-> search.probability_threshold,
                 passes |-> search.round_id,
                 result |-> search.previous_round]
    /\ search' = NoSearch
    /\ UNCHANGED found_before
    /\ UNCHANGED notSearch

InitBranchBound ==
    /\ CipherIdle
    /\ PermutationIdle
    /\ UtilityIdle
    /\ SearchIdle
    /\ M2Idle
    /\ NumpyIdle
    /\ KeySearchIdle
    /\ RoundIdle
    /\ ApproximationIdle
    /\ AttackIdle

NextBranchBound ==
    \/ \E cipher \in SearchCiphers, alpha \in SearchAlphas,
          probability_threshold \in Thresholds :
           BranchBound(cipher, alpha, probability_threshold)
    \/ \E betas \in BetaSamples : BranchBoundRound(betas)
    \/ BranchBoundReturn

SpecBranchBound == InitBranchBound /\ [][NextBranchBound]_vars

\* p > q for the fractions p = p.num / 2 ** p.exp and q likewise.
Exceeds(p, q) == p.num * 2 ^ q.exp > q.num * 2 ^ p.exp

\* C8 as stated: for every cipher, input mask and threshold, every entry
\* (beta, p) of the map branch_bound returns has p > probability_threshold
\* and beta # 0.
BranchBoundEntriesAboveThreshold ==
    found.returned =>
        \A beta \in DOMAIN found.result :
            /\ Exceeds(found.result[beta], found.probability_threshold)
            /\ beta # 0

\* C8 for a cipher of at least one round: every entry (beta, p) of the map
\* branch_bound returns has p > probability_threshold and beta # 0.  (With
\* no round the map returned is {alpha: 1}, whatever alpha and the
\* threshold are.)
BranchBoundEntriesAboveThresholdAfterARound ==
    (found.returned /\ found.heys.rounds >= 1) =>
        \A beta \in DOMAIN found.result :
            /\ Exceeds(found.result[beta], found.probability_threshold)
            /\ beta # 0

\* C8 witness: two rounds from alpha = 1 with threshold 0 return 0x9009
\* with probability 1 / 4 * 1 / 16.
BranchBoundEntriesAboveThresholdWitness ==
    /\ found.returned
    /\ found.heys.rounds = 2
    /\ found.alpha = 1
    /\ found.probability_threshold = Dyadic(0, 0)
    /\ DOMAIN found.result = {36873}
    /\ found.result[36873] = Dyadic(1, 6)

\* C9: two calls of branch_bound with the same cipher, alpha and threshold
\* return the same map.
BranchBoundDeterministic ==
    (/\ found.returned
     /\ found_before.returned
     /\ found.heys = found_before.heys
     /\ found.alpha = found_before.alpha
     /\ found.probability_threshold = found_before.probability_threshold)
    => found.result = found_before.result

\* C19: for a cipher of R rounds branch_bound makes exactly R - 1 passes of
\* its loop, each expanding and pruning the frontier, before it returns.
BranchBoundMakesRoundsLessOne ==
    found.returned => found.passes = found.heys.rounds - 1

\* ------------------------------------------------------------------------
\* heys/branch_bound.py: one pass of the loop over the rounds
\* ------------------------------------------------------------------------

\* The frontier branch_bound starts from, {alpha: 1}.
first_round(alpha) == (alpha :> Dyadic(1, 0))

\* previous_round at the start of a pass: {alpha: 1}, or what a first pass
\* with a threshold of 0 left of it.
RoundFrontiers ==
    {first_round(alpha) : alpha \in SearchAlphas}
    \cup {surviving(current_round(first_round(alpha), betas,
                                  search_probabilities[s_box]),
                    Dyadic(0, 0)) :
              alpha \in SearchAlphas, betas \in BetaSamples, s_box \in SBoxes}

\* The body of the loop over the rounds up to the filter, randint having
\* returned betas.
BranchBoundRoundAlone(s_box, previous_round, betas) ==
    /\ expanded' = [done |-> TRUE, sbox_fragment |-> s_box,
                    previous_round |-> previous_round, betas |-> betas,
                    current_round |->
                        current_round(previous_round, betas,
                                      search_probabilities[s_box])]
    /\ UNCHANGED notRound

InitRound ==
    /\ CipherIdle
    /\ PermutationIdle
    /\ UtilityIdle
    /\ SearchIdle
    /\ M2Idle
    /\ NumpyIdle
    /\ KeySearchIdle
    /\ RoundIdle
    /\ ApproximationIdle
    /\ AttackIdle

NextRound ==
    \E s_box \in SBoxes, previous_round \in RoundFrontiers,
       betas \in BetaSamples :
        BranchBoundRoundAlone(s_box, previous_round, betas)

SpecRound == InitRound /\ [][NextRound]_vars

\* The sum over the masks gamma of `elements` of p_gamma * q(gamma -> beta),
\* every pair of gamma and beta counted once.
RECURSIVE frontier_sum(_, _, _, _)
frontier_sum(elements, frontier, probabilities, beta) ==
    IF elements = {} THEN Dyadic(0, 0)
    ELSE LET gamma == CHOOSE element \in elements : TRUE
         IN  Total(frontier_sum(elements \ {gamma}, frontier, probabilities,
                                beta),
                   Product(frontier[gamma],
                           approximation_probability(gamma, permutation(beta),
                                                     probabilities)))

\* C20: in a round the unpruned value of each candidate beta is the sum over
\* the masks gamma of the frontier of p_gamma * q(gamma -> beta), each pair
\* contributing once, and is no more than 1.
BranchBoundRoundSumsEachPairOnce ==
    expanded.done =>
        \A beta \in DOMAIN expanded.current_round :
            /\ expanded.current_round[beta]
               = frontier_sum(DOMAIN expanded.previous_round,
                              expanded.previous_round,
                              search_probabilities[expanded.sbox_fragment],
                              beta)
            /\ ~Exceeds(expanded.current_round[beta], Dyadic(1, 0))

\* ------------------------------------------------------------------------
\* heys/m2.py: the search for key candidates
\* ------------------------------------------------------------------------

\* heys/s_box.py _sbox_transformation, one entry of the table heys.sbox:
\* every fragment of the element replaced by its substitution.
sbox_transformation(sbox, element) ==
    sbox[Fragment(element, 0)] + 16 * sbox[Fragment(element, 1)]
    + 256 * sbox[Fragment(element, 2)] + 4096 * sbox[Fragment(element, 3)]

\* key_candidates of _key_search_process.
key_candidates == 0 .. (KeyCount - 1)

\* correlation of _key_search_process for one pair of the corpus.
correlation(sbox, alpha, beta, key, open_text, cipher_text) ==
    Xor(bitwise_dot(alpha,
                    permutation(sbox_transformation(sbox, Xor(open_text, key))),
                    16),
        bitwise_dot(beta, cipher_text, 16))

\* possible_keys[key]: abs(einsum("e->", where(correlation == 0, 1, -1))).
possible_key(sbox, alpha, beta, key, data) ==
    LET pairs == DOMAIN data[1]
        zeros == Cardinality({e \in pairs :
                     correlation(sbox, alpha, beta, key,
                                 data[1][e], data[2][e]) = 0})
        sum == zeros - (Cardinality(pairs) - zeros)
    IN  IF sum < 0 THEN 0 - sum ELSE sum

\* The place (from 0) of key among the `equals` keys of its statistic, of
\* which `smaller` are smaller keys than it, in the order `order`.
tie_position(order, equals, smaller) ==
    LET middle == (equals + 1) \div 2
    IN  CASE order = "ascending" -> smaller
          [] order = "descending" -> equals - 1 - smaller
          [] order = "pivoted" ->
                 IF smaller + 1 < middle THEN smaller
                 ELSE IF smaller + 1 = middle THEN equals - 1
                 ELSE smaller - 1

\* argsort(possible_keys): the keys in the order of their statistics,
\* those of one statistic in the order the sort in use leaves them in.
argsort(possible_keys, order) ==
    LET before(key) ==
            Cardinality({other \in DOMAIN possible_keys :
                possible_keys[other] < possible_keys[key]})
            + tie_position(order,
                  Cardinality({other \in DOMAIN possible_keys :
                      possible_keys[other] = possible_keys[key]}),
                  Cardinality({other \in DOMAIN possible_keys :
                      /\ possible_keys[other] = possible_keys[key]
                      /\ other < key}))
    IN  [position \in 1 .. Cardinality(DOMAIN possible_keys) |->
            CHOOSE key \in DOMAIN possible_keys : before(key) = position - 1]

\* array[-top_keys:]: the last top_keys elements, all of them when
\* top_keys is 0 or no less than the length.
last_elements(array, top_keys) ==
    IF top_keys = 0 \/ top_keys >= Len(array) THEN array
    ELSE SubSeq(array, Len(array) - top_keys + 1, Len(array))

\* What one pass of the loop of _key_search_process over its betas
\* appends to output_keys.
key_search(sbox, alpha, beta, data, top_keys, order) ==
    last_elements(
        argsort([key \in key_candidates |->
                     possible_key(sbox, alpha, beta, key, data)], order),
        top_keys)

\* output_keys = keys: what is in the list is dropped for the new keys.
overwritten(output_keys, keys) == keys

\* output_keys.extend(keys) on the list of the manager.
extended(output_keys, keys) == output_keys \o keys


\* The betas m2 gives to process pid (0 .. processes_number - 1):
\* betas_array[pid * betas_split:(pid + 1) * betas_split] with
\* betas_split = betas_array.shape[0] // processes_number.
betas_of_process(betas_array, processes_number, pid) ==
    LET betas_split == Len(betas_array) \div processes_number
    IN  SubSeq(betas_array, pid * betas_split + 1, (pid + 1) * betas_split)

\* The cipher m2 reads sbox and permutation of.
M2Cipher == [sbox_fragment |-> S_BOX]

\* The corpus a caller passes: opentexts and, position by position, the
\* ciphertexts that go with them.
Corpora == {<< <<27212, 41604, 5193>>, <<3573, 1377, 38738>> >>}

\* The betas of an alpha, in the order of its dict.
beta_keys(count) == [i \in 1 .. count |-> 4097 * i]

\* The approximations a caller passes, as the sequence of the items of
\* the dict (of an inner dict the keys only, m2 reads no more): none, one
\* alpha of 0 .. MaxBetas betas, or two alphas.
ApproximationTables ==
    {<< >>}
    \cup {<<[alpha |-> 1, betas |-> beta_keys(count)]>> :
             count \in 0 .. MaxBetas}
    \cup {<<[alpha |-> 1, betas |-> beta_keys(MaxBetas)],
            [alpha |-> 15, betas |-> beta_keys(1)]>>}

\* top_keys a caller of m2 passes.
TopKeys == {1, 2}

\* m2 up to its loop over the alphas.
M2(cipher, data, approximations, processes_number, top_keys) ==
    /\ ~job.active
    /\ job' = [active |-> TRUE, heys |-> cipher, data |-> data,
               approximations |-> approximations,
               processes_number |-> processes_number,
               top_keys |-> top_keys,
               keys |-> << >>, alpha_id |-> 0,
               joined |-> TRUE, keys_list |-> << >>, processes |-> << >>,
               raised |-> FALSE]
    /\ finished' = NotFinished
    /\ finished_before' = finished
    /\ UNCHANGED notM2

\* The loop over the alphas, for the next alpha up to process.start():
\* the list of the manager is new, and each process has its betas.
M2Start ==
    /\ job.active
    /\ job.joined
    /\ job.alpha_id < Len(job.approximations)
    /\ job' = [job EXCEPT
           !.alpha_id = @ + 1,
           !.joined = FALSE,
           !.keys_list = << >>,
           !.processes =
               [pid \in 0 .. (job.processes_number - 1) |->
                   [betas |-> betas_of_process(
                                  job.approximations[job.alpha_id + 1].betas,
                                  job.processes_number, pid),
                    beta_id |-> 0, raised |-> FALSE]]]
    /\ UNCHANGED <<finished, finished_before>>
    /\ UNCHANGED notM2

\* One pass of the loop of _key_search_process in process pid: the next
\* of its betas, and output_keys.extend.
KeySearchProcess(pid) ==
    /\ job.active
    /\ ~job.joined
    /\ pid \in DOMAIN job.processes
    /\ ~job.processes[pid].raised
    /\ job.processes[pid].beta_id < Len(job.processes[pid].betas)
    /\ LET alpha == job.approximations[job.alpha_id].alpha
           beta == job.processes[pid].betas[job.processes[pid].beta_id + 1]
           output == key_search(job.heys.sbox_fragment, alpha, beta,
                                job.data, job.top_keys, tie_order)
       IN  job' = [job EXCEPT
               !.processes[pid].beta_id = @ + 1,
               !.keys_list = extended(@, output)]
    /\ UNCHANGED <<finished, finished_before>>
    /\ UNCHANGED notM2

\* An exception raised in process pid during the pass for its next beta
\* (the arrays of the corpus do not combine, memory runs out, the process
\* is killed): the process ends with a traceback and a non-zero exit
\* code, the betas it had left are not processed, and what it has
\* appended stays in the list.
KeySearchRaises(pid) ==
    /\ job.active
    /\ ~job.joined
    /\ pid \in DOMAIN job.processes
    /\ ~job.processes[pid].raised
    /\ job.processes[pid].beta_id < Len(job.processes[pid].betas)
    /\ job' = [job EXCEPT !.processes[pid].raised = TRUE,
                          !.raised = TRUE]
    /\ UNCHANGED <<finished, finished_before>>
    /\ UNCHANGED notM2

\* process.join() has returned for every process, as it does for one that
\* ended on an exception (its exit code is not read): keys.extend(keys_list).
M2Join ==
    /\ job.active
    /\ ~job.joined
    /\ \A pid \in DOMAIN job.processes :
           \/ job.processes[pid].beta_id = Len(job.processes[pid].betas)
           \/ job.processes[pid].raised
    /\ job' = [job EXCEPT
           !.joined = TRUE,
           !.keys = @ \o job.keys_list,
           !.keys_list = << >>,
           !.processes = << >>]
    /\ UNCHANGED <<finished, finished_before>>
    /\ UNCHANGED notM2

\* return array(keys, dtype="uint16")
M2Return ==
    /\ job.active
    /\ job.joined
    /\ job.alpha_id = Len(job.approximations)
    /\ finished' = [returned |-> TRUE, heys |-> job.heys, data |-> job.data,
                    approximations |-> job.approximations,
                    processes_number |-> job.processes_number,
                    top_keys |-> job.top_keys,
                    raised |-> job.raised,
                    keys |-> job.keys]
    /\ job' = NoJob
    /\ UNCHANGED finished_before
    /\ UNCHANGED notM2

InitM2 ==
    /\ CipherIdle
    /\ PermutationIdle
    /\ UtilityIdle
    /\ SearchIdle
    /\ M2Idle
    /\ tie_order \in TieOrders
    /\ KeySearchIdle
    /\ RoundIdle
    /\ ApproximationIdle
    /\ AttackIdle

NextM2 ==
    \/ \E data \in Corpora, approximations \in ApproximationTables,
          processes_number \in 1 .. MaxProcesses, top_keys \in TopKeys :
           M2(M2Cipher, data, approximations, processes_number, top_keys)
    \/ M2Start
    \/ \E pid \in 0 .. (MaxProcesses - 1) : KeySearchProcess(pid)
    \/ \E pid \in 0 .. (MaxProcesses - 1) : KeySearchRaises(pid)
    \/ M2Join
    \/ M2Return

SpecM2 == InitM2 /\ [][NextM2]_vars

\* How many times key occurs in the array keys.
votes(keys, key) == Cardinality({i \in DOMAIN keys : keys[i] = key})

\* C10: two calls of m2 with the same cipher, corpus, approximations and
\* top_keys, in neither of which a process ended on an exception, return
\* the same multiset of key candidates, whatever their processes_number.
M2SameForEveryProcessesNumber ==
    (/\ finished.returned
     /\ finished_before.returned
     /\ ~finished.raised
     /\ ~finished_before.raised
     /\ finished.heys = finished_before.heys
     /\ finished.data = finished_before.data
     /\ finished.approximations = finished_before.approximations
     /\ finished.top_keys = finished_before.top_keys)
    => \A key \in key_candidates :
           votes(finished.keys, key) = votes(finished_before.keys, key)

\* Two calls of m2 that returned, with the same arguments, in neither of
\* which a process ended on an exception.
SamePartitionTwice ==
    /\ finished.returned
    /\ finished_before.returned
    /\ ~finished.raised
    /\ ~finished_before.raised
    /\ finished.heys = finished_before.heys
    /\ finished.data = finished_before.data
    /\ finished.approximations = finished_before.approximations
    /\ finished.top_keys = finished_before.top_keys
    /\ finished.processes_number = finished_before.processes_number

\* C13: for fixed alpha buckets and a fixed partition among the processes,
\* the multiset of candidates m2 collects is the same under every
\* interleaving of the appends of the processes; the counter built from it
\* is identical, only the order may differ.
M2SameForEveryInterleaving ==
    SamePartitionTwice =>
        /\ Len(finished.keys) = Len(finished_before.keys)
        /\ \A key \in key_candidates :
               votes(finished.keys, key) = votes(finished_before.keys, key)

\* C13 witness: two calls with two processes whose appends came in a
\* different order.
M2SameForEveryInterleavingWitness ==
    /\ SamePartitionTwice
    /\ finished.processes_number = 2
    /\ finished.keys # finished_before.keys

\* C14: when a process of m2 ends on an exception the call fails: m2
\* returns no array of candidates, so none that holds what that process
\* had appended or lacks what its remaining betas would have given.
M2FailsWhenProcessRaises ==
    finished.returned => ~finished.raised

\* ------------------------------------------------------------------------
\* heys/m2.py: _key_search_process on its own
\* ------------------------------------------------------------------------

\* possible_keys = zeros_like(key_candidates, dtype="uint64"), made once
\* before the loop over betas.
zeros_like == [key \in key_candidates |-> 0]

added(previous, statistic) == previous + statistic

\* possible_keys[key] = abs(...): the entry takes the statistic, whatever
\* the pass for the beta before left in it.
assigned(previous, statistic) == statistic

\* possible_keys at the end of the loop over key_candidates for one beta,
\* buffer being possible_keys before it: the loop assigns the entry of
\* every key.
possible_keys(buffer, sbox, alpha, beta, data) ==
    [key \in key_candidates |->
        assigned(buffer[key], possible_key(sbox, alpha, beta, key, data))]

\* possible_keys after the passes for the first beta_id betas.
RECURSIVE possible_keys_after(_, _, _, _, _)
possible_keys_after(sbox, alpha, betas, data, beta_id) ==
    IF beta_id = 0 THEN zeros_like
    ELSE possible_keys(possible_keys_after(sbox, alpha, betas, data,
                                           beta_id - 1),
                       sbox, alpha, betas[beta_id], data)

\* The passes of the loop of _key_search_process over betas: for each
\* beta possible_keys after the loop over the keys and the keys appended.
key_search_passes(sbox, alpha, betas, data, top_keys, order) ==
    [beta_id \in DOMAIN betas |->
        [beta |-> betas[beta_id],
         possible_keys |->
             possible_keys_after(sbox, alpha, betas, data, beta_id),
         keys |-> last_elements(
                      argsort(possible_keys_after(sbox, alpha, betas, data,
                                                  beta_id), order),
                      top_keys)]]

\* output_keys after the passes from pass beta_id on, output_keys before
\* them given.
RECURSIVE key_search_output(_, _, _)
key_search_output(output_keys, passes, beta_id) ==
    IF beta_id > Len(passes) THEN output_keys
    ELSE key_search_output(extended(output_keys, passes[beta_id].keys),
                           passes, beta_id + 1)

\* Input masks and top_keys a caller passes to _key_search_process: any
\* top_keys up to the number of candidates.
KeySearchAlphas == {0, 1, 15}

KeySearchTopKeys == 0 .. KeyCount

\* _key_search_process(output_keys, heys, alpha, betas, data, hamming,
\* top_keys) with output_keys empty, to its end.
KeySearch(cipher, alpha, betas, data, top_keys) ==
    /\ searched' =
           [made |-> TRUE, heys |-> cipher, alpha |-> alpha, betas |-> betas,
            data |-> data, top_keys |-> top_keys,
            passes |-> key_search_passes(cipher.sbox_fragment, alpha, betas,
                                         data, top_keys, tie_order),
            output_keys |->
                key_search_output(<< >>,
                    key_search_passes(cipher.sbox_fragment, alpha, betas,
                                      data, top_keys, tie_order), 1)]
    /\ UNCHANGED notKeySearch

InitKeySearch ==
    /\ CipherIdle
    /\ PermutationIdle
    /\ UtilityIdle
    /\ SearchIdle
    /\ M2Idle
    /\ tie_order \in TieOrders
    /\ KeySearchIdle
    /\ RoundIdle
    /\ ApproximationIdle
    /\ AttackIdle

NextKeySearch ==
    \E alpha \in KeySearchAlphas, count \in 0 .. MaxBetas, data \in Corpora,
       top_keys \in KeySearchTopKeys :
        KeySearch(M2Cipher, alpha, beta_keys(count), data, top_keys)

SpecKeySearch == InitKeySearch /\ [][NextKeySearch]_vars

\* The keys of the array keys.
emitted(keys) == {keys[i] : i \in DOMAIN keys}

\* C11: for every beta processed and every top_keys, _key_search_process
\* emits exactly top_keys distinct keys for that beta, and no key that is
\* not emitted has a strictly larger score than an emitted key.
KeySearchEmitsTopKeys ==
    searched.made =>
        \A beta_id \in DOMAIN searched.passes :
            LET pass == searched.passes[beta_id]
            IN  /\ Len(pass.keys) = searched.top_keys
                /\ Cardinality(emitted(pass.keys)) = searched.top_keys
                /\ \A key \in emitted(pass.keys),
                      other \in key_candidates \ emitted(pass.keys) :
                       pass.possible_keys[other] <= pass.possible_keys[key]

\* The keys emitted in pass among those of the lowest score emitted are
\* the largest keys of that score (upper) or the smallest (~upper).
broken_by_key(pass, upper) ==
    \A key \in emitted(pass.keys),
       other \in key_candidates \ emitted(pass.keys) :
        pass.possible_keys[other] = pass.possible_keys[key]
        => IF upper THEN other < key ELSE key < other

\* C12: when several keys share the score at the boundary of the top_keys,
\* the keys emitted are selected by a tie-break on the key value: of the
\* keys of that score the largest are emitted in every pass, or the
\* smallest in every pass.
KeySearchBreaksTiesByKey ==
    searched.made =>
        \E upper \in BOOLEAN :
            \A beta_id \in DOMAIN searched.passes :
                broken_by_key(searched.passes[beta_id], upper)

\* The parity of the bits of word under mask, bit by bit from bit_id up.
RECURSIVE parity(_, _, _)
parity(mask, word, bit_id) ==
    IF bit_id = 16 THEN 0
    ELSE (Bit(mask, bit_id) * Bit(word, bit_id)
          + parity(mask, word, bit_id + 1)) % 2

\* The sum over the pairs from i on of (-1) ^ (parity(alpha, PERM[SBOX16[X[i]
\* XOR k]]) XOR parity(beta, Y[i])).
RECURSIVE signed_sum(_, _, _, _, _, _)
signed_sum(sbox, alpha, beta, key, data, i) ==
    IF i > Len(data[1]) THEN 0
    ELSE (IF parity(alpha,
                    calculate_permutation(SBOX16(sbox, Xor(data[1][i], key))),
                    0)
             = parity(beta, data[2][i], 0)
          THEN 1 ELSE -1)
         + signed_sum(sbox, alpha, beta, key, data, i + 1)

\* C21: for every beta processed and every key the score that ranks the
\* keys is the absolute value of the sum over the pairs of the corpus of
\* (-1) ^ (parity(alpha, PERM[SBOX16[X[i] XOR k]]) XOR parity(beta, Y[i])):
\* it depends on alpha, beta, the key and the corpus only, nothing of the
\* pass for an earlier beta being left in possible_keys.
KeySearchScoreIsStatistic ==
    searched.made =>
        \A beta_id \in DOMAIN searched.passes, key \in key_candidates :
            LET sum == signed_sum(searched.heys.sbox_fragment,
                                  searched.alpha,
                                  searched.betas[beta_id], key,
                                  searched.data, 1)
            IN  searched.passes[beta_id].possible_keys[key]
                = IF sum < 0 THEN 0 - sum ELSE sum

\* A second beta was processed, and a key has a lower score for it than
\* for the first.
KeySearchScoreIsStatisticWitness ==
    /\ searched.made
    /\ Len(searched.passes) >= 2
    /\ \E key \in key_candidates :
           searched.passes[2].possible_keys[key]
           < searched.passes[1].possible_keys[key]

\* ------------------------------------------------------------------------
\* heys/attack.py: calculate_approximations
\* ------------------------------------------------------------------------

\* A dict of approximations is the sequence of its items in their order,
\* each the alpha and the dict of its betas, a function from beta to the
\* probability.

\* approximations_amount: the number of entries over all the alphas.
RECURSIVE approximations_amount(_)
approximations_amount(holder) ==
    IF holder = << >> THEN 0
    ELSE Cardinality(DOMAIN Head(holder).betas)
         + approximations_amount(Tail(holder))

replaced(alpha_approximations, result) == result

\* approximations[alpha].update(...): the entries of result are added to
\* those of alpha, and take the place of those with the same beta.
updated(alpha_approximations, result) ==
    [beta \in DOMAIN alpha_approximations \cup DOMAIN result |->
        IF beta \in DOMAIN result THEN result[beta]
        ELSE alpha_approximations[beta]]

exhausted_early(alpha_id, holder) == alpha_id >= Len(holder)

\* The loop over approximations.keys() has no alpha left, alpha_id
\* counting the alphas from 1.
exhausted(alpha_id, holder) == alpha_id > Len(holder)

exceeded(total_approximations, max_approximations_number) ==
    total_approximations > max_approximations_number

\* total_approximations >= max_approximations_number, the test before the
\* loop and at the end of each of its passes.
reached(total_approximations, max_approximations_number) ==
    total_approximations >= max_approximations_number

\* What calculate_approximations is called with.
ApproximationCiphers ==
    {[sbox_fragment |-> S_BOX, rounds |-> rounds] : rounds \in 0 .. MaxRounds}

ApproximationDicts ==
    {<< >>,
     <<[alpha |-> 1, betas |-> << >>]>>,
     <<[alpha |-> 1, betas |-> (36873 :> Dyadic(1, 2))]>>,
     <<[alpha |-> 1, betas |-> << >>], [alpha |-> 0, betas |-> << >>]>>,
     <<[alpha |-> 0, betas |-> << >>],
       [alpha |-> 1, betas |-> (4097 :> Dyadic(1, 4))]>>}

ApproximationsNumbers == 0 .. MaxApproximations

\* calculate_approximations up to its first call of branch_bound, or to its
\* return when there are approximations enough or no alpha at all.
CalculateApproximations(cipher, holder, max_approximations_number, probability_threshold) ==
    /\ ~calculation.active
    /\ ~search.active
    /\ ~found.returned
    /\ approximations_dict' = holder
    /\ LET total_approximations == approximations_amount(holder)
           made == [heys |-> cipher, before |-> holder,
                    max_approximations_number |-> max_approximations_number,
                    probability_threshold |-> probability_threshold,
                    searched |-> << >>,
                    totals |-> <<total_approximations>>]
       IN  IF \/ reached(total_approximations, max_approximations_number)
              \/ exhausted(1, holder)
           THEN /\ calculation' = NoCalculation
                /\ calculated' = made @@ [returned |-> TRUE,
                                          result |-> holder]
           ELSE /\ calculation' = made @@ [active |-> TRUE, alpha_id |-> 1]
                /\ calculated' = NotCalculated
    /\ UNCHANGED searchVars
    /\ UNCHANGED notApproximation

\* The call of branch_bound in the loop, for the alpha the loop is at.
ApproximationsSearch ==
    /\ calculation.active
    /\ ~found.returned
    /\ BranchBound(calculation.heys,
                   approximations_dict[calculation.alpha_id].alpha,
                   calculation.probability_threshold)

\* branch_bound has returned: the rest of the pass of the loop, and the
\* return when the loop breaks or ends.
ApproximationsUpdate ==
    /\ calculation.active
    /\ found.returned
    /\ LET alpha_id == calculation.alpha_id
           holder == [approximations_dict EXCEPT
                         ![alpha_id].betas = updated(@, found.result)]
           total_approximations == approximations_amount(holder)
           made == [calculation EXCEPT
                       !.alpha_id = @ + 1,
                       !.searched = Append(@, found.alpha),
                       !.totals = Append(@, total_approximations)]
       IN  /\ approximations_dict' = holder
           /\ IF \/ reached(total_approximations,
                            calculation.max_approximations_number)
                 \/ exhausted(alpha_id + 1, holder)
              THEN /\ calculation' = NoCalculation
                   /\ calculated' =
                          [heys |-> made.heys, before |-> made.before,
                           max_approximations_number |->
                               made.max_approximations_number,
                           probability_threshold |->
                               made.probability_threshold,
                           searched |-> made.searched,
                           totals |-> made.totals,
                           returned |-> TRUE, result |-> holder]
              ELSE /\ calculation' = made
                   /\ calculated' = calculated
    /\ found' = NotFound
    /\ UNCHANGED <<search, found_before>>
    /\ UNCHANGED notApproximation

InitApproximations ==
    /\ CipherIdle
    /\ PermutationIdle
    /\ UtilityIdle
    /\ SearchIdle
    /\ M2Idle
    /\ NumpyIdle
    /\ KeySearchIdle
    /\ RoundIdle
    /\ ApproximationIdle
    /\ AttackIdle

\* The steps a call of calculate_approximations goes through once made.
ApproximationsStep ==
    \/ ApproximationsSearch
    \/ \E betas \in BetaSamples : BranchBoundRound(betas)
    \/ BranchBoundReturn
    \/ ApproximationsUpdate

NextApproximations ==
    \/ \E cipher \in ApproximationCiphers, holder \in ApproximationDicts,
          max_approximations_number \in ApproximationsNumbers,
          probability_threshold \in Thresholds :
           CalculateApproximations(cipher, holder, max_approximations_number,
                                   probability_threshold)
    \/ ApproximationsStep

SpecApproximations == InitApproximations /\ [][NextApproximations]_vars

\* A call is under way: the states where ApproximationsStep is enabled.
ApproximationsPending == calculation.active

\* The interpreter goes on with a call once it is made: weak fairness
\* WF_vars(ApproximationsStep), with ENABLED <<ApproximationsStep>>_vars
\* written as the state predicate it is equal to.
SpecApproximationsFair ==
    /\ SpecApproximations
    /\ \/ []<>(~ApproximationsPending)
       \/ []<><<ApproximationsStep>>_vars

\* The alphas of a dict, in its order.
alphas_of(holder) == [i \in DOMAIN holder |-> holder[i].alpha]

\* C15: calculate_approximations terminates; it calls branch_bound at most
\* once for each alpha provided; and when it returns either the entries over
\* all the alphas are max_approximations_number or more, or branch_bound has
\* been run exactly once on every alpha provided.
CalculateApproximationsTerminates ==
    /\ [](calculation.active =>
              /\ Len(calculation.searched) <= Len(calculation.before)
              /\ calculation.searched
                 = SubSeq(alphas_of(calculation.before), 1,
                          Len(calculation.searched)))
    /\ [](calculated.returned =>
              /\ calculated.searched
                 = SubSeq(alphas_of(calculated.before), 1,
                          Len(calculated.searched))
              /\ \/ approximations_amount(calculated.result)
                    >= calculated.max_approximations_number
                 \/ calculated.searched = alphas_of(calculated.before))
    /\ (calculation.active ~> calculated.returned)

\* Returned on the first of two alphas, the number asked for being reached.
CalculateApproximationsTerminatesWitness ==
    /\ calculated.returned
    /\ Len(calculated.before) = 2
    /\ Len(calculated.searched) = 1
    /\ approximations_amount(calculated.before)
       < calculated.max_approximations_number

\* C18: the table only grows under calculate_approximations: every alpha
\* and beta in it before the call is in it after, the alphas are the same,
\* and the total after each alpha searched is no less than the one before.
ApproximationsOnlyGrow ==
    LET made == IF calculation.active THEN calculation ELSE calculated
    IN  (calculation.active \/ calculated.returned) =>
            /\ alphas_of(approximations_dict) = alphas_of(made.before)
            /\ \A i \in DOMAIN made.before :
                   DOMAIN made.before[i].betas
                   \subseteq DOMAIN approximations_dict[i].betas
            /\ \A i \in 1 .. (Len(made.totals) - 1) :
                   made.totals[i] <= made.totals[i + 1]

\* An alpha with a beta before the call was searched, kept its beta and
\* got another.
ApproximationsOnlyGrowWitness ==
    /\ calculated.returned
    /\ \E i \in DOMAIN calculated.before :
           /\ calculated.before[i].alpha \in
                  {calculated.searched[j] : j \in DOMAIN calculated.searched}
           /\ DOMAIN calculated.before[i].betas # {}
           /\ DOMAIN calculated.before[i].betas
              # DOMAIN approximations_dict[i].betas
           /\ calculated.totals[Len(calculated.totals)]
              > calculated.totals[1]

\* C22: calculate_approximations never searches once the quota is met: a
\* table that holds max_approximations_number entries or more at the call
\* is returned as it is with branch_bound never called, every call of
\* branch_bound is made with fewer entries than that in the table, and the
\* betas of the alphas after the one whose search reached the quota are
\* left as they were.
ApproximationsStopAtQuota ==
    /\ (search.active \/ found.returned) =>
           /\ calculation.active
           /\ calculation.totals[Len(calculation.totals)]
              < calculation.max_approximations_number
    /\ calculated.returned =>
           /\ calculated.totals[1] >= calculated.max_approximations_number
              => /\ calculated.searched = << >>
                 /\ calculated.result = calculated.before
                 /\ approximations_dict = calculated.before
           /\ \A i \in 1 .. (Len(calculated.totals) - 1) :
                  calculated.totals[i] < calculated.max_approximations_number
           /\ \A alpha_id \in DOMAIN calculated.before :
                  alpha_id > Len(calculated.searched)
                  => /\ calculated.result[alpha_id]
                        = calculated.before[alpha_id]
                     /\ approximations_dict[alpha_id]
                        = calculated.before[alpha_id]

\* The search on the first of two alphas reached the quota, and the
\* second, which had a beta, has it still and no other.
ApproximationsStopAtQuotaWitness ==
    /\ calculated.returned
    /\ Len(calculated.before) = 2
    /\ Len(calculated.searched) = 1
    /\ DOMAIN calculated.before[2].betas # {}
    /\ calculated.result[2] = calculated.before[2]
    /\ approximations_amount(calculated.result)
       >= calculated.max_approximations_number

\* ------------------------------------------------------------------------
\* heys/attack.py: attack
\* ------------------------------------------------------------------------

\* list(betas.keys()): the betas of a dict in its order, which is the
\* order they were inserted in, any order of its keys here.
key_orders(betas) ==
    {order \in [1 .. Cardinality(DOMAIN betas) -> DOMAIN betas] :
        \A i, j \in DOMAIN order : order[i] = order[j] => i = j}

\* approximations.items() as m2 goes through them: alpha by alpha, the
\* betas of each in the order of its dict.
RECURSIVE items(_)
items(holder) ==
    IF holder = << >> THEN {<< >>}
    ELSE {<<[alpha |-> Head(holder).alpha, betas |-> order]>> \o rest :
              order \in key_orders(Head(holder).betas),
              rest \in items(Tail(holder))}

\* dict(Counter(key_candidates)): each key with the times it occurs.
Counter(keys) ==
    [key \in {keys[i] : i \in DOMAIN keys} |-> votes(keys, key)]

\* What attack is called with: a corpus with a ciphertext for every
\* opentext, one with a ciphertext missing, one with no pair at all; no
\* alpha, or the alpha 1; thresholds 0 and 1 / 8.
AttackCorpora ==
    Corpora \cup {<< <<27212, 41604, 5193>>, <<3573, 1377>> >>,
                  << << >>, << >> >>}

AttackDicts == {<< >>, <<[alpha |-> 1, betas |-> << >>]>>}

AttackThresholds == {Dyadic(0, 0), Dyadic(1, 3)}

\* attack is entered: nothing is looked at before calculate_approximations
\* is called.
Attack(cipher, data, holder, max_approximations_number, probability_threshold, processes_number, top_keys) ==
    /\ ~attacking.active
    /\ ~calculation.active
    /\ ~search.active
    /\ ~job.active
    /\ attacking' = [active |-> TRUE, heys |-> cipher, data |-> data,
                     before |-> holder,
                     max_approximations_number |-> max_approximations_number,
                     probability_threshold |-> probability_threshold,
                     processes_number |-> processes_number,
                     top_keys |-> top_keys]
    /\ attacked' = NotAttacked
    /\ UNCHANGED <<approximationVars, m2Vars>>
    /\ UNCHANGED notAttack

\* approximations = calculate_approximations(...)
AttackApproximations ==
    /\ attacking.active
    /\ ~calculated.returned
    /\ CalculateApproximations(attacking.heys, attacking.before,
                               attacking.max_approximations_number,
                               attacking.probability_threshold)

\* key_candidates = m2(...), on what calculate_approximations returned.
AttackM2 ==
    /\ attacking.active
    /\ calculated.returned
    /\ ~finished.returned
    /\ \E approximations \in items(calculated.result) :
           M2(attacking.heys, attacking.data, approximations,
              attacking.processes_number, attacking.top_keys)

\* The pass of _key_search_process for a corpus whose arrays combine.
AttackKeySearchProcess(pid) ==
    /\ job.active
    /\ Len(job.data[1]) = Len(job.data[2])
    /\ KeySearchProcess(pid)

\* The pass of _key_search_process for a corpus whose arrays do not
\* combine: correlation ^= ... raises ValueError.
AttackKeySearchRaises(pid) ==
    /\ job.active
    /\ Len(job.data[1]) # Len(job.data[2])
    /\ KeySearchRaises(pid)

\* return approximations, dict(Counter(key_candidates)): no path of attack
\* returns or raises an error of its own.
AttackReturn ==
    /\ attacking.active
    /\ calculated.returned
    /\ finished.returned
    /\ attacked' = [returned |-> TRUE, error |-> FALSE,
                    heys |-> attacking.heys, data |-> attacking.data,
                    before |-> attacking.before,
                    max_approximations_number |->
                        attacking.max_approximations_number,
                    probability_threshold |->
                        attacking.probability_threshold,
                    processes_number |-> attacking.processes_number,
                    top_keys |-> attacking.top_keys,
                    approximations |-> calculated.result,
                    key_candidates |-> Counter(finished.keys)]
    /\ attacking' = NoAttack
    /\ calculated' = NotCalculated
    /\ finished' = NotFinished
    /\ UNCHANGED <<approximations_dict, calculation, job, finished_before>>
    /\ UNCHANGED notAttack

InitAttack ==
    /\ CipherIdle
    /\ PermutationIdle
    /\ UtilityIdle
    /\ SearchIdle
    /\ M2Idle
    /\ tie_order \in TieOrders
    /\ KeySearchIdle
    /\ RoundIdle
    /\ ApproximationIdle
    /\ AttackIdle

NextAttack ==
    \/ \E cipher \in ApproximationCiphers, data \in AttackCorpora,
          holder \in AttackDicts, probability_threshold \in AttackThresholds :
           Attack(cipher, data, holder, 1, probability_threshold, 1, 1)
    \/ AttackApproximations
    \/ ApproximationsStep
    \/ AttackM2
    \/ M2Start
    \/ \E pid \in 0 .. (MaxProcesses - 1) : AttackKeySearchProcess(pid)
    \/ \E pid \in 0 .. (MaxProcesses - 1) : AttackKeySearchRaises(pid)
    \/ M2Join
    \/ M2Return
    \/ AttackReturn

SpecAttack == InitAttack /\ [][NextAttack]_vars

\* The input the specification has attack reject: opentexts and
\* ciphertexts of different lengths, no pair, no alpha, or a threshold
\* that is not above 0.
invalid_input(arguments) ==
    \/ Len(arguments.data[1]) # Len(arguments.data[2])
    \/ Len(arguments.data[1]) = 0
    \/ arguments.before = << >>
    \/ ~Exceeds(arguments.probability_threshold, Dyadic(0, 0))

\* C16: attack called with invalid input returns an error at entry: no
\* approximation is searched for and no key is scored for it, and the
\* table of the caller is as it was.
AttackRejectsInvalidInput ==
    /\ (attacking.active /\ invalid_input(attacking)) =>
           /\ ~calculation.active
           /\ ~calculated.returned
           /\ ~search.active
           /\ ~job.active
           /\ ~finished.returned
    /\ (attacked.returned /\ invalid_input(attacked)) =>
           /\ attacked.error
           /\ approximations_dict = attacked.before

====
